---- MODULE Spec2Model ----
(***************************************************************************)
(* Model of pylsp_mypy/plugin.py: the report parser (parse_line), the      *)
(* override splicing (apply_overrides), the config search                  *)
(* (find_config_file, init), the lint hook (pylsp_lint) with its           *)
(* process-wide diagnostic cache, and the exit handler (close).            *)
(*                                                                         *)
(* A Python str is a TLA+ string (Len, SubSeq and \o act on it); a Python  *)
(* list is a sequence; a dict is a function whose DOMAIN is its key set.   *)
(* Elements of argument lists are tagged values (Str, PyTrue, PyInt) so    *)
(* that Python's == between a bool and an int can be modelled.             *)
(***************************************************************************)
EXTENDS Integers, Sequences, FiniteSets, TLC

VARIABLES
    last_diagnostics,      \* dict: document path -> list of diagnostics
    mypy_config_file_map,  \* dict: workspace path -> config file path or None
    runtime_filepaths,     \* _runtime_filepaths: list of (key, path), insertion order
    disk,                  \* the temp directory: runtime file path -> content
    files,                 \* config search: the <<directory, name>> that exist
    sections,              \* config search: <<directory, s>>: pyproject.toml there has [tool.s]
    call,                  \* the last hook invocation: its inputs and what it did
    parse_call,            \* the last parse_line invocation
    override_call,         \* the last apply_overrides invocation
    config_call            \* the last find_config_file invocation

vars == <<last_diagnostics, mypy_config_file_map, runtime_filepaths, disk, files,
          sections, call, parse_call, override_call, config_call>>

(***************************************************************************)
(* Python values                                                           *)
(***************************************************************************)
PyNone == [t |-> "None"]
Str(s) == [t |-> "str", s |-> s]
PyTrue == [t |-> "bool", b |-> TRUE]
PyInt(n) == [t |-> "int", i |-> n]

\* The empty dict / the empty function.
EmptyDict == <<>>

\* s[i:i+1]: the character at 1-based position i, "" outside the string.
CharAt(s, i) == IF i \in 1..Len(s) THEN SubSeq(s, i, i) ELSE ""

\* str.endswith
EndsWith(s, suffix) ==
    /\ Len(suffix) <= Len(s)
    /\ SubSeq(s, Len(s) - Len(suffix) + 1, Len(s)) = suffix

\* str.startswith
StartsWith(s, prefix) ==
    /\ Len(prefix) <= Len(s)
    /\ SubSeq(s, 1, Len(prefix)) = prefix

Digits == {"0", "1", "2", "3", "4", "5", "6", "7", "8", "9"}
LowerAZ == {"a", "b", "c", "d", "e", "f", "g", "h", "i", "j", "k", "l", "m",
            "n", "o", "p", "q", "r", "s", "t", "u", "v", "w", "x", "y", "z"}
UpperAZ == {"A", "B", "C", "D", "E", "F", "G", "H", "I", "J", "K", "L", "M",
            "N", "O", "P", "Q", "R", "S", "T", "U", "V", "W", "X", "Y", "Z"}
WordChars == LowerAZ \cup UpperAZ \cup Digits \cup {"_"}

DigitValue(c) ==
    CASE c = "0" -> 0 [] c = "1" -> 1 [] c = "2" -> 2 [] c = "3" -> 3 [] c = "4" -> 4
      [] c = "5" -> 5 [] c = "6" -> 6 [] c = "7" -> 7 [] c = "8" -> 8 [] c = "9" -> 9

\* int(s) for a string of decimal digits.
RECURSIVE ToInt(_)
ToInt(s) ==
    IF Len(s) = 0 THEN 0
    ELSE 10 * ToInt(SubSeq(s, 1, Len(s) - 1)) + DigitValue(CharAt(s, Len(s)))

DigitStr == <<"0", "1", "2", "3", "4", "5", "6", "7", "8", "9">>

\* str(n) for n >= 0, as the checker prints a line or column number.
RECURSIVE ToStr(_)
ToStr(n) == IF n < 10 THEN DigitStr[n + 1] ELSE (ToStr(n \div 10)) \o (DigitStr[(n % 10) + 1])

(***************************************************************************)
(* line_pattern and re.match. The pattern is, in order: group 1, an        *)
(* optional drive prefix (a lowercase letter and a colon, at the start)    *)
(* and one or more non-colon characters; a colon; optionally group 2,      *)
(* digits, and a colon; optionally group 3, digits, and a colon; a space;  *)
(* group 4, one or more word characters; a colon and a space; group 5,     *)
(* the rest of the line. Lines hold no newline: they come from             *)
(* splitlines().                                                           *)
(***************************************************************************)

\* Last index of the maximal run of characters of class cls starting at i
\* (i - 1 when the run is empty): a greedy cls*.
RECURSIVE RunEndIn(_, _, _)
RunEndIn(s, i, cls) ==
    IF i <= Len(s) /\ CharAt(s, i) \in cls THEN RunEndIn(s, i + 1, cls) ELSE i - 1

\* Last index of the maximal run of non-colon characters starting at i: [^:]*
RECURSIVE RunEndNotColon(_, _)
RunEndNotColon(s, i) ==
    IF i <= Len(s) /\ CharAt(s, i) # ":" THEN RunEndNotColon(s, i + 1) ELSE i - 1

\* No match; a group that did not take part in the match (None) is "".
NoMatch == [matched |-> FALSE, file_path |-> "", linenoStr |-> "", offsetStr |-> "",
            severity |-> "", msg |-> ""]

\* The end of the pattern: a space at p3, group 4 from p3 + 1 to w, a colon
\* and a space, group 5. e ends group 1; groups 2 and 3 are lineno, offset.
MatchSeverity(line, e, lineno, offset, p3, w) ==
    IF /\ CharAt(line, p3) = " "
       /\ w >= p3 + 1
       /\ CharAt(line, w + 1) = ":"
       /\ CharAt(line, w + 2) = " "
    THEN [matched |-> TRUE,
          file_path |-> SubSeq(line, 1, e),
          linenoStr |-> lineno,
          offsetStr |-> offset,
          severity |-> SubSeq(line, p3 + 1, w),
          msg |-> SubSeq(line, w + 3, Len(line))]
    ELSE NoMatch

\* The optional group 3 at p2: digits up to d2, and a colon.
MatchOffset(line, e, lineno, p2, d2) ==
    IF d2 >= p2 /\ CharAt(line, d2 + 1) = ":"
    THEN MatchSeverity(line, e, lineno, SubSeq(line, p2, d2), d2 + 2,
                       RunEndIn(line, d2 + 3, WordChars))
    ELSE MatchSeverity(line, e, lineno, "", p2, RunEndIn(line, p2 + 1, WordChars))

\* The optional group 2 at p1: digits up to d1, and a colon.
MatchLineno(line, e, p1, d1) ==
    IF d1 >= p1 /\ CharAt(line, d1 + 1) = ":"
    THEN MatchOffset(line, e, SubSeq(line, p1, d1), d1 + 2,
                     RunEndIn(line, d1 + 2, Digits))
    ELSE MatchOffset(line, e, "", p1, RunEndIn(line, p1, Digits))

\* Group 1 ends at e, the end of its non-colon run, and a colon follows.
MatchPath(line, runStart, e) ==
    IF e >= runStart /\ CharAt(line, e + 1) = ":"
    THEN MatchLineno(line, e, e + 2, RunEndIn(line, e + 2, Digits))
    ELSE NoMatch

\* The pattern from the non-colon run of group 1 on, the run starting at
\* runStart. Every quantifier is greedy and each is followed by a character
\* outside its class, so backtracking into a shorter run never succeeds.
MatchFrom(line, runStart) == MatchPath(line, runStart, RunEndNotColon(line, runStart))

\* re.match(line_pattern, line): the optional drive prefix (?:^[a-z]:)? is
\* tried first, and the match without it only when that fails.
FirstMatch(withDrive, line) ==
    IF withDrive.matched THEN withDrive ELSE MatchFrom(line, 1)

re_match(line) ==
    FirstMatch(IF CharAt(line, 1) \in LowerAZ /\ CharAt(line, 2) = ":"
               THEN MatchFrom(line, 3)
               ELSE NoMatch, line)

(***************************************************************************)
(* Documents                                                               *)
(***************************************************************************)

\* document = None
NoDocument == [some |-> FALSE, path |-> "", source |-> "", words |-> EmptyDict]

\* A pylsp Document: its path, its text and its word lookup (position -> word).
Document(path, source, words) ==
    [some |-> TRUE, path |-> path, source |-> source, words |-> words]

\* document.word_at_position(pos): "" where the document has no word.
word_at_position(document, pos) ==
    LET key == <<pos.line, pos.character>>
    IN  IF key \in DOMAIN document.words THEN document.words[key] ELSE ""

(***************************************************************************)
(* parse_line                                                              *)
(***************************************************************************)

\* A mutation of Discards: the path test made with startswith.
DiscardsByPrefix(file_path, document) ==
    /\ file_path # "<string>"
    /\ document.some
    /\ document.path # ""
    /\ ~StartsWith(document.path, file_path)

\* The test that drops a result reported for another file.
Discards(file_path, document) ==
    /\ file_path # "<string>"
    /\ document.some
    /\ document.path # ""
    /\ ~EndsWith(document.path, file_path)

\* int(linenoStr or 1) - 1 and int(offsetStr or 1) - 1
lineno(result) == (IF result.linenoStr # "" THEN ToInt(result.linenoStr) ELSE 1) - 1
offset(result) == (IF result.offsetStr # "" THEN ToInt(result.offsetStr) ELSE 1) - 1

\* The diagnostic of a match that is kept; word is "" without a document.
diagnostic(result, word) ==
    [t |-> "diag",
     source |-> "mypy",
     range |-> [start |-> [line |-> lineno(result), character |-> offset(result)],
                end |-> [line |-> lineno(result),
                         character |-> IF word # "" THEN offset(result) + Len(word)
                                       ELSE offset(result) + 1]],
     message |-> result.msg,
     severity |-> IF result.severity = "error" THEN 1 ELSE 2]

\* parse_line from the match on.
parse_match(result, document) ==
    IF ~result.matched THEN PyNone
    ELSE IF Discards(result.file_path, document) THEN PyNone
    ELSE diagnostic(
           result,
           IF document.some
           THEN word_at_position(
                  document, [line |-> lineno(result), character |-> offset(result)])
           ELSE "")

parse_line(line, document) == parse_match(re_match(line), document)

(***************************************************************************)
(* The state after import: empty dicts, no runtime file registered.        *)
(***************************************************************************)
NoCall == [op |-> "none"]

\* Module-level state (lines 32, 39, 57): what every specification starts from.
InitModule ==
    /\ last_diagnostics = EmptyDict
    /\ mypy_config_file_map = EmptyDict
    /\ runtime_filepaths = <<>>
    /\ disk = EmptyDict
    /\ call = NoCall

(***************************************************************************)
(* SpecParse: parse_line applied to report lines.                          *)
(***************************************************************************)
MaxNumber == 10

\* The 1-based line and column numbers a report line may carry: none, a
\* line, or a line and a column.
NumberLists ==
    {<<>>} \cup {<<n>> : n \in 1..MaxNumber}
           \cup {<<n, m>> : n \in 1..MaxNumber, m \in 1..MaxNumber}

ReportPaths == {"a", "x", "xa", "b.py", "<string>"}
ReportSeverities == {"error", "note"}
ReportMessages == {"m", "x: y"}

\* The parts of a line of the grammar  path:[line:][col:] severity: message
ReportParts ==
    [grammar : {TRUE}, path : ReportPaths, nums : NumberLists,
     severity : ReportSeverities, msg : ReportMessages]

\* The line the checker prints for these parts.
FormatLine(parts) ==
    LET n == parts.nums
        numbers == IF Len(n) = 0 THEN ""
                   ELSE IF Len(n) = 1 THEN ToStr(n[1]) \o ":"
                   ELSE ToStr(n[1]) \o ":" \o ToStr(n[2]) \o ":"
    IN  parts.path \o ":" \o numbers \o " " \o parts.severity \o ": " \o parts.msg

\* Output of the checker that is no diagnostic line.
OtherLines == {"", "Success: no issues found in 1 source file", "a:1:2 error: m",
               "C:a.py:3:4: error: m", "a: b:"}
NoParts == [grammar |-> FALSE, path |-> "", nums |-> <<>>, severity |-> "", msg |-> ""]

DocWords == (<<0, 0>> :> "foo") @@ (<<2, 3>> :> "ab")
ParseDocuments ==
    {NoDocument, Document("xa", "foo = 1", DocWords),
     Document("/w/b.py", "foo = 1", DocWords), Document("", "", EmptyDict)}

ParseInputs ==
    {[line |-> FormatLine(parts), parts |-> parts, document |-> d,
      done |-> FALSE, result |-> PyNone] : parts \in ReportParts, d \in ParseDocuments}
    \cup
    {[line |-> l, parts |-> NoParts, document |-> d,
      done |-> FALSE, result |-> PyNone] : l \in OtherLines, d \in ParseDocuments}

NoPureCall == [done |-> FALSE]

InitParse ==
    /\ InitModule
    /\ files = {}
    /\ sections = {}
    /\ parse_call \in ParseInputs
    /\ override_call = NoPureCall
    /\ config_call = NoPureCall

ParseLine ==
    /\ ~parse_call.done
    /\ parse_call' = [parse_call EXCEPT
                        !.done = TRUE,
                        !.result = parse_line(parse_call.line, parse_call.document)]
    /\ UNCHANGED <<last_diagnostics, mypy_config_file_map, runtime_filepaths, disk,
                   files, sections, call, override_call, config_call>>

NextParse == ParseLine

SpecParse == InitParse /\ [][NextParse]_vars

\* s is a suffix of t (stated over all split points of t).
IsSuffixOf(s, t) == \E k \in 0..Len(t) : SubSeq(t, k + 1, Len(t)) = s

\* The parsed call is one the discard rule speaks about: the line matched,
\* a document was given, and the reported file is not the placeholder.
ParsedForDocument ==
    /\ parse_call.done
    /\ parse_call.document.some
    /\ re_match(parse_call.line).matched
    /\ re_match(parse_call.line).file_path # "<string>"

InputNumber(parts, i) == IF Len(parts.nums) >= i THEN parts.nums[i] ELSE 1

\* C5 (as stated): every line of the grammar that is not discarded yields a
\* diagnostic at (line - 1, column - 1), 0 for a missing number, ending on
\* the same line one character later, or a word length later when the
\* document has a word there.
C5_PositionsFromInput ==
    (parse_call.done /\ parse_call.parts.grammar /\ parse_call.result # PyNone) =>
        LET r == parse_call.result.range
            word == IF parse_call.document.some
                    THEN word_at_position(parse_call.document, r.start)
                    ELSE ""
        IN  /\ r.start.line = InputNumber(parse_call.parts, 1) - 1
            /\ r.start.character = InputNumber(parse_call.parts, 2) - 1
            /\ r.end.line = r.start.line
            /\ r.end.character =
                 r.start.character + (IF word # "" THEN Len(word) ELSE 1)

(***************************************************************************)
(* apply_overrides                                                         *)
(***************************************************************************)

\* The number a bool or an int compares as.
NumOf(v) == IF v.t = "bool" THEN (IF v.b THEN 1 ELSE 0) ELSE v.i

\* Python's a == b on the values of an argument list: True == 1.
PyEq(a, b) ==
    IF a.t = "str" /\ b.t = "str" THEN a.s = b.s
    ELSE IF a.t \in {"bool", "int"} /\ b.t \in {"bool", "int"} THEN NumOf(a) = NumOf(b)
    ELSE FALSE

\* "x in iterator": the iterator is advanced to just after the first element
\* equal to x; the index of that element, 0 when the iterator is exhausted.
RECURSIVE IterFind(_, _, _)
IterFind(list, x, i) ==
    IF i > Len(list) THEN 0
    ELSE IF PyEq(list[i], x) THEN i
    ELSE IterFind(list, x, i + 1)

apply_overrides(args, overrides) ==
    LET k == IterFind(overrides, PyTrue, 1)
    IN  IF k = 0 THEN overrides
        ELSE LET rest == SubSeq(overrides, k + 1, Len(overrides))
             IN  SubSeq(overrides, 1, Len(overrides) - (Len(rest) + 1)) \o args \o rest

(***************************************************************************)
(* SpecOverrides: apply_overrides applied to argument and override lists.  *)
(***************************************************************************)
MaxOverrides == 3

OverrideValues == {PyTrue, PyInt(1), Str("-a"), Str("-b")}

RECURSIVE ListsUpTo(_, _)
ListsUpTo(S, n) ==
    IF n = 0 THEN {<<>>}
    ELSE LET shorter == ListsUpTo(S, n - 1)
         IN  shorter \cup {Append(l, x) : l \in shorter, x \in S}

BaseArgLists ==
    {<<>>, <<Str("--show-column-numbers")>>,
     <<Str("--show-column-numbers"), Str("f.py")>>}

InitOverrides ==
    /\ InitModule
    /\ files = {}
    /\ sections = {}
    /\ parse_call = NoPureCall
    /\ config_call = NoPureCall
    /\ override_call \in
         {[args |-> a, overrides |-> o, done |-> FALSE, result |-> <<>>] :
            a \in BaseArgLists, o \in ListsUpTo(OverrideValues, MaxOverrides)}

ApplyOverrides ==
    /\ ~override_call.done
    /\ override_call' = [override_call EXCEPT
                           !.done = TRUE,
                           !.result = apply_overrides(override_call.args,
                                                      override_call.overrides)]
    /\ UNCHANGED <<last_diagnostics, mypy_config_file_map, runtime_filepaths, disk,
                   files, sections, call, parse_call, config_call>>

NextOverrides == ApplyOverrides

SpecOverrides == InitOverrides /\ [][NextOverrides]_vars

\* The positions of a list that hold the sentinel itself, the boolean True.
SentinelPositions(list) == {i \in 1..Len(list) : list[i] = PyTrue}

\* C4 (as stated): without the sentinel True the overrides are returned
\* unchanged; with it the result is the elements before the first True,
\* then the base arguments, then the elements after it -- also for lists
\* that hold the integer 1.
C4_SplicedAtSentinel ==
    override_call.done =>
        LET o == override_call.overrides
            at == SentinelPositions(o)
        IN  IF at = {} THEN override_call.result = o
            ELSE LET k == CHOOSE i \in at : \A j \in at : i <= j
                 IN  override_call.result =
                       SubSeq(o, 1, k - 1) \o override_call.args
                         \o SubSeq(o, k + 1, Len(o))

(***************************************************************************)
(* find_config_file and init. A directory is its depth below the root: the *)
(* parents of directory d are d, d - 1, ..., 0.                            *)
(***************************************************************************)
MaxDepth == 2
MaxFiles == 3

Dirs == 0..MaxDepth

PluginNames == <<"pylsp-mypy.cfg", "mypy-ls.cfg", "mypy_ls.cfg", "pyproject.toml">>
CheckerNames == <<"mypy.ini", ".mypy.ini", "pyproject.toml">>

\* str(directory): "/w", "/w/w", ...; the root's files are "/name".
RECURSIVE DirPath(_)
DirPath(d) == IF d = 0 THEN "" ELSE DirPath(d - 1) \o "/w"

\* str(parent.joinpath(name))
FilePath(d, name) == DirPath(d) \o "/" \o name

\* "name in list"
InList(x, list) == \E i \in 1..Len(list) : list[i] = x

NoneFound == [kind |-> "None", dir |-> 0, name |-> ""]
Found(d, name) == [kind |-> "path", dir |-> d, name |-> name]
Deprecated(d, name) == [kind |-> "DeprecationWarning", dir |-> d, name |-> name]

\* A mutation of configPresent: the manifest is taken whatever it holds.
configPresentUnchecked(d, names) == TRUE

\* toml.load(file).get("tool", {}).get(key) is not None, the key chosen by
\* whether the plugin's own config name is among the names searched.
configPresent(d, names) ==
    LET isPluginConfig == InList("pylsp-mypy.cfg", names)
    IN  <<d, IF isPluginConfig THEN "pylsp-mypy" ELSE "mypy">> \in sections

\* The inner loop over names[i..] in directory d: a result, or NoneFound
\* when the loop falls through.
RECURSIVE SearchNames(_, _, _)
SearchNames(d, names, i) ==
    IF i > Len(names) THEN NoneFound
    ELSE LET name == names[i]
         IN  IF <<d, name>> \in files
             THEN IF name \in {"mypy-ls.cfg", "mypy_ls.cfg"} THEN Deprecated(d, name)
                  ELSE IF name = "pyproject.toml" /\ ~configPresent(d, names)
                       THEN SearchNames(d, names, i + 1)
                  ELSE Found(d, name)
             ELSE SearchNames(d, names, i + 1)

\* The outer loop over start.parents, from directory d up to the root.
RECURSIVE SearchParents(_, _)
SearchParents(d, names) ==
    LET here == SearchNames(d, names, 1)
    IN  IF here.kind # "None" THEN here
        ELSE IF d = 0 THEN NoneFound
        ELSE SearchParents(d - 1, names)

find_config_file(path, names) == SearchParents(path, names)

\* "sub in s"
Contains(s, sub) ==
    \E k \in 0..(Len(s) - Len(sub)) : SubSeq(s, k + 1, k + Len(sub)) = sub

\* init(workspace): the result, and mypy_config_file_map afterwards. A
\* DeprecationWarning of the first search leaves the map as it was.
init(workspace) ==
    LET path == find_config_file(workspace, PluginNames)
        configuration ==
            IF path.kind # "path" THEN "{}"
            ELSE IF Contains(FilePath(path.dir, path.name), "pyproject.toml")
                 THEN "toml:tool.pylsp-mypy"
                 ELSE "literal_eval"
        mypy_config_file == find_config_file(workspace, CheckerNames)
    IN  IF path.kind = "DeprecationWarning"
        THEN [raised |-> TRUE, configuration |-> "{}", map |-> mypy_config_file_map]
        ELSE IF mypy_config_file.kind = "DeprecationWarning"
        THEN [raised |-> TRUE, configuration |-> "{}", map |-> mypy_config_file_map]
        ELSE [raised |-> FALSE, configuration |-> configuration,
              map |-> [w \in DOMAIN mypy_config_file_map \cup {workspace} |->
                         IF w = workspace THEN mypy_config_file
                         ELSE mypy_config_file_map[w]]]

\* pylsp_settings(config): init(config._root_path), the map updated.
pylsp_settings(root_path) ==
    /\ mypy_config_file_map' = init(root_path).map
    /\ call' = [op |-> "pylsp_settings", root_path |-> root_path,
                raised |-> init(root_path).raised,
                configuration |-> init(root_path).configuration]

(***************************************************************************)
(* SpecConfig: find_config_file and init over small directory trees.       *)
(***************************************************************************)
ConfigNames == {"pylsp-mypy.cfg", "mypy-ls.cfg", "mypy_ls.cfg", "pyproject.toml",
                "mypy.ini", ".mypy.ini"}
ToolSections == {"pylsp-mypy", "mypy"}

\* The name lists searched: the two of init, and one whose manifest is not last.
NameLists == {PluginNames, CheckerNames, <<"pyproject.toml", "mypy.ini">>}

RECURSIVE SetsUpTo(_, _)
SetsUpTo(S, n) ==
    IF n = 0 THEN {{}}
    ELSE LET smaller == SetsUpTo(S, n - 1)
         IN  smaller \cup {s \cup {x} : s \in smaller, x \in S}

InitConfig ==
    /\ InitModule
    /\ parse_call = NoPureCall
    /\ override_call = NoPureCall
    /\ files \in SetsUpTo(Dirs \X ConfigNames, MaxFiles)
    /\ sections \in SUBSET {<<d, t>> \in Dirs \X ToolSections :
                              <<d, "pyproject.toml">> \in files}
    /\ config_call \in [path : Dirs, names : NameLists, done : {FALSE},
                        result : {NoneFound}]

FindConfigFile ==
    /\ ~config_call.done
    /\ config_call' = [config_call EXCEPT
                         !.done = TRUE,
                         !.result = find_config_file(config_call.path, config_call.names)]
    /\ UNCHANGED <<last_diagnostics, mypy_config_file_map, runtime_filepaths, disk,
                   files, sections, call, parse_call, override_call>>

Settings ==
    /\ call = NoCall
    /\ pylsp_settings(config_call.path)
    /\ UNCHANGED <<last_diagnostics, runtime_filepaths, disk, files, sections,
                   parse_call, override_call, config_call>>

NextConfig == FindConfigFile \/ Settings

SpecConfig == InitConfig /\ [][NextConfig]_vars

\* The name list index at which directory d, name names[i] is tried comes
\* before that of (e, j): nearer directory first, then list order.
TriedBefore(d, i, e, j) == d > e \/ (d = e /\ i < j)

\* <<d, i>> ranges over the places the search of config_call visits.
SearchPlaces == (0..config_call.path) \X (1..Len(config_call.names))

ExistsAt(pl) == <<pl[1], config_call.names[pl[2]]>> \in files

\* An existing file that may be returned: any but a manifest that lacks the
\* section of the caller's purpose.
AcceptableAt(pl) ==
    /\ ExistsAt(pl)
    /\ config_call.names[pl[2]] = "pyproject.toml" =>
         <<pl[1], IF \E k \in 1..Len(config_call.names) :
                       config_call.names[k] = "pylsp-mypy.cfg"
                  THEN "pylsp-mypy" ELSE "mypy">> \in sections

DeprecatedAt(pl) ==
    ExistsAt(pl) /\ config_call.names[pl[2]] \in {"mypy-ls.cfg", "mypy_ls.cfg"}

\* pl is the first place, in search order, of the set P.
FirstOf(pl, P) ==
    pl \in P /\ \A q \in P : q = pl \/ TriedBefore(pl[1], pl[2], q[1], q[2])

\* C6 (as stated): the result is the first acceptable existing file in
\* search order (start directory first, then each ancestor; names in list
\* order), a manifest lacking its section being passed over, and None when
\* there is no acceptable file up to the root.
C6_FirstAcceptableReturned ==
    config_call.done =>
        LET P == {pl \in SearchPlaces : AcceptableAt(pl)}
        IN  IF P = {} THEN config_call.result = NoneFound
            ELSE \E pl \in P :
                   /\ FirstOf(pl, P)
                   /\ config_call.result = Found(pl[1], config_call.names[pl[2]])

\* C6 (amended): as stated, except that the search ends with a
\* DeprecationWarning when it meets an existing mypy-ls.cfg or mypy_ls.cfg
\* before any acceptable file of another name.
C6_FirstAcceptableOrDeprecation ==
    config_call.done =>
        LET P == {pl \in SearchPlaces : AcceptableAt(pl)}
        IN  IF P = {} THEN config_call.result = NoneFound
            ELSE \E pl \in P :
                   /\ FirstOf(pl, P)
                   /\ config_call.result =
                        IF DeprecatedAt(pl)
                        THEN Deprecated(pl[1], config_call.names[pl[2]])
                        ELSE Found(pl[1], config_call.names[pl[2]])

\* C6 witness: the start directory holds a manifest without the plugin's
\* section and the search went on to return a file of a parent directory.
C6_Witness ==
    /\ config_call.done
    /\ config_call.names = PluginNames
    /\ <<config_call.path, "pyproject.toml">> \in files
    /\ <<config_call.path, "pylsp-mypy">> \notin sections
    /\ config_call.result.kind = "path"
    /\ config_call.result.dir < config_call.path

(***************************************************************************)
(* Runtime files                                                           *)
(***************************************************************************)
LiveModeBuffer == "/tmp/live-mode-buffer.txt"
DmypyStatusFile == "/tmp/dmypy.json"
DmypyPerfFile == "/tmp/dmypy-perf.json"

\* get_runtime_filepaths(): _runtime_filepaths afterwards (and the value
\* returned): filled on first use, in this insertion order.
get_runtime_filepaths ==
    IF runtime_filepaths = <<>>
    THEN << <<"live_mode_buffer", LiveModeBuffer>>,
            <<"dmypy_status_file", DmypyStatusFile>>,
            <<"dmypy_perf_file", DmypyPerfFile>> >>
    ELSE runtime_filepaths

\* runtime_filepaths[key]
RuntimePath(paths, key) ==
    LET i == CHOOSE j \in 1..Len(paths) : paths[j][1] = key IN paths[i][2]

(***************************************************************************)
(* The calls the host makes in Spec, and the answers of the checker.       *)
(***************************************************************************)
WorkspaceRoot == 1

LintWords == (<<0, 0>> :> "x")
LintDocuments ==
    {Document("/w/xa", "x: int = 'a'", LintWords), Document("/w/b.py", "import os", EmptyDict)}

\* The pylsp_mypy settings a call may come with.
LintSettings ==
    {EmptyDict,
     [live_mode |-> FALSE, strict |-> TRUE, overrides |-> <<Str("--python-version=3.11")>>],
     [dmypy |-> TRUE],
     [dmypy |-> TRUE, live_mode |-> TRUE, strict |-> TRUE,
      overrides |-> <<PyTrue, Str("--shadow-file"), Str("/w/xa"), Str("/w/xa.orig")>>]}

\* The legacy namespaces: unset, or set.
LegacySettings == {EmptyDict, [live_mode |-> FALSE]}

\* What the checker prints: nothing, or lines for two files and a summary.
\* (report, messages, status): a clean run, errors found, a warning of the
\* checker itself, and a run that failed.
FoundReport == "xa:1:1: error: m\nb.py:3: note: n\nFound 1 error in 1 file\n"
Runs ==
    {[report |-> "", messages |-> "", status |-> 0],
     [report |-> FoundReport, messages |-> "", status |-> 1],
     [report |-> FoundReport, messages |-> "mypy: warning", status |-> 0],
     [report |-> "", messages |-> "mypy: bad option", status |-> 2]}

\* The runtime files a daemon run leaves behind: the two named on its
\* command line.
DaemonFiles == {{DmypyStatusFile, DmypyPerfFile}}
Probes == {[status |-> 0, messages |-> ""],
           [status |-> 2, messages |-> "No status file found"]}
NoAnswer == [report |-> "", messages |-> "", status |-> 0]
NoProbe == [status |-> 0, messages |-> ""]

(***************************************************************************)
(* pylsp_lint                                                              *)
(***************************************************************************)

\* dict.get(key, default)
Get(dict, key, default) == IF key \in DOMAIN dict THEN dict[key] ELSE default

\* d == {}
IsEmptyDict(d) == DOMAIN d = {}

\* A mutation of deprecated_namespace: the legacy namespaces are looked at
\* only as a fallback, when the pylsp_mypy settings are empty.
deprecated_namespace_fallback_only(settings, oldSettings1, oldSettings2) ==
    IF ~IsEmptyDict(settings) THEN ""
    ELSE IF ~IsEmptyDict(oldSettings1) THEN "mypy-ls"
    ELSE IF ~IsEmptyDict(oldSettings2) THEN "mypy_ls"
    ELSE ""

\* The namespace the DeprecationWarning names, "" when none is raised.
deprecated_namespace(settings, oldSettings1, oldSettings2) ==
    IF ~IsEmptyDict(oldSettings1) THEN "mypy-ls"
    ELSE IF ~IsEmptyDict(oldSettings2) THEN "mypy_ls"
    ELSE ""

\* The settings used once no legacy namespace is set.
resolved_settings(settings, oldSettings1, oldSettings2) ==
    IF IsEmptyDict(settings)
    THEN IF IsEmptyDict(oldSettings1) THEN oldSettings2 ELSE oldSettings1
    ELSE settings

\* A mutation of effective_live_mode: the daemon does not switch it off.
configured_live_mode(settings) == Get(settings, "live_mode", TRUE)

\* live_mode after "if dmypy and live_mode: live_mode = False".
effective_live_mode(settings) ==
    LET live_mode == Get(settings, "live_mode", TRUE)
        dmypy == Get(settings, "dmypy", FALSE)
    IN  IF dmypy /\ live_mode THEN FALSE ELSE live_mode

\* A mutation of returns_cached: the cached list is tested for truth, so an
\* empty cached list is not returned.
returns_cached_if_nonempty(live_mode, is_saved, path, cache) ==
    /\ ~(live_mode /\ ~is_saved)
    /\ ~is_saved
    /\ path \in DOMAIN cache
    /\ cache[path] # <<>>

\* The elif branch is taken: the cached diagnostics are returned.
returns_cached(live_mode, is_saved, path, cache) ==
    /\ ~(live_mode /\ ~is_saved)
    /\ ~is_saved
    /\ path \in DOMAIN cache

\* A mutation of dmypy_invocations: the daemon is killed when the probe
\* succeeds.
dmypy_invocations_kill_healthy(probe_status, run_args) ==
    <<[api |-> "run_dmypy", args |-> <<Str("status")>>]>>
      \o (IF probe_status = 0
          THEN <<[api |-> "run_dmypy", args |-> <<Str("kill")>>]>> ELSE <<>>)
      \o <<[api |-> "run_dmypy", args |-> run_args]>>

\* The calls of mypy_api.run_dmypy, in order.
dmypy_invocations(probe_status, run_args) ==
    <<[api |-> "run_dmypy", args |-> <<Str("status")>>]>>
      \o (IF probe_status # 0
          THEN <<[api |-> "run_dmypy", args |-> <<Str("kill")>>]>> ELSE <<>>)
      \o <<[api |-> "run_dmypy", args |-> run_args]>>

\* str.splitlines(), for "\n" line ends.
RECURSIVE RunEndNotNewline(_, _)
RunEndNotNewline(s, i) ==
    IF i <= Len(s) /\ CharAt(s, i) # "\n" THEN RunEndNotNewline(s, i + 1) ELSE i - 1

RECURSIVE splitlines(_)
splitlines(s) ==
    IF s = "" THEN <<>>
    ELSE LET e == RunEndNotNewline(s, 1)
         IN  <<SubSeq(s, 1, e)>> \o splitlines(SubSeq(s, e + 2, Len(s)))

\* The diagnostic that exposes the checker's own message on the first line.
generic_diagnostic(messages, status) ==
    [t |-> "diag",
     source |-> "mypy",
     range |-> [start |-> [line |-> 0, character |-> 0],
                end |-> [line |-> 0, character |-> 1000]],
     message |-> messages,
     severity |-> IF status # 0 THEN 1 ELSE 2]

\* The loop over report.splitlines() from line i: the diagnostics of the
\* lines that parse to one.
RECURSIVE parse_lines(_, _, _)
parse_lines(lines, i, document) ==
    IF i > Len(lines) THEN <<>>
    ELSE LET diag == parse_line(lines[i], document)
         IN  (IF diag # PyNone THEN <<diag>> ELSE <<>>)
               \o parse_lines(lines, i + 1, document)

\* The diagnostics list built from the checker's report and messages.
build_diagnostics(report, messages, status, document) ==
    (IF messages # "" THEN <<generic_diagnostic(messages, status)>> ELSE <<>>)
      \o parse_lines(splitlines(report), 1, document)

\* A mutation of store_diagnostics: the new list is added to the old entry.
store_diagnostics_extend(cache, path, diagnostics) ==
    [p \in DOMAIN cache \cup {path} |->
        IF p = path
        THEN (IF path \in DOMAIN cache THEN cache[path] ELSE <<>>) \o diagnostics
        ELSE cache[p]]

\* last_diagnostics[document.path] = diagnostics
store_diagnostics(cache, path, diagnostics) ==
    [p \in DOMAIN cache \cup {path} |-> IF p = path THEN diagnostics ELSE cache[p]]

\* open(path, "w"), write(content), close()
write_file(d, path, content) ==
    [p \in DOMAIN d \cup {path} |-> IF p = path THEN content ELSE d[p]]

\* The daemon run writes the files of the set created: its status file and
\* its performance file, named on its command line.
daemon_writes(d, created) ==
    [p \in DOMAIN d \cup created |-> IF p \in created THEN "dmypy" ELSE d[p]]

\* build_diagnostics for every answer and document of Spec, evaluated once.
RunDiagnostics ==
    [run \in Runs \cup {NoAnswer}, document \in LintDocuments |->
       build_diagnostics(run.report, run.messages, run.status, document)]

\* The diagnostics of one checker answer for one document.
checker_diagnostics(run, document) == RunDiagnostics[run, document]

\* What one pylsp_lint call does, given what the checker answers: probe is
\* the answer of run_dmypy(["status"]), run that of the checking run, and
\* created the runtime files the daemon run leaves behind.
lint(settings0, oldSettings1, oldSettings2, root_path, document, is_saved, probe, run, created) ==
    LET namespace == deprecated_namespace(settings0, oldSettings1, oldSettings2)
        settings == resolved_settings(settings0, oldSettings1, oldSettings2)
        live_mode == effective_live_mode(settings)
        dmypy == Get(settings, "dmypy", FALSE)
        paths == get_runtime_filepaths
        writes == live_mode /\ ~is_saved
        args1 == <<Str("--show-column-numbers")>>
                   \o (IF writes
                       THEN <<Str("--shadow-file"), Str(document.path),
                              Str(RuntimePath(paths, "live_mode_buffer"))>>
                       ELSE <<>>)
        mypy_cfg_file == Get(mypy_config_file_map, root_path, NoneFound)
        args2 == args1
                   \o (IF mypy_cfg_file.kind = "path"
                       THEN <<Str("--config-file"),
                              Str(FilePath(mypy_cfg_file.dir, mypy_cfg_file.name))>>
                       ELSE <<>>)
                   \o <<Str(document.path)>>
                   \o (IF Get(settings, "strict", FALSE) THEN <<Str("--strict")>> ELSE <<>>)
        overrides == Get(settings, "overrides", <<PyTrue>>)
        invoked ==
            IF ~dmypy
            THEN <<[api |-> "run",
                    args |-> apply_overrides(
                               args2 \o <<Str("--incremental"), Str("--follow-imports"),
                                          Str("silent")>>, overrides)]>>
            ELSE dmypy_invocations(
                   probe.status,
                   <<Str("--status-file"), Str(RuntimePath(paths, "dmypy_status_file")),
                     Str("run"), Str("--perf-stats-file"),
                     Str(RuntimePath(paths, "dmypy_perf_file")), Str("--")>>
                     \o apply_overrides(args2, overrides))
        diagnostics == checker_diagnostics(run, document)
        disk1 == IF writes
                 THEN write_file(disk, RuntimePath(paths, "live_mode_buffer"),
                                 document.source)
                 ELSE disk
    IN  IF namespace # ""
        THEN [outcome |-> "DeprecationWarning", namespace |-> namespace,
              returned |-> <<>>, invoked |-> <<>>, wrote_buffer |-> FALSE,
              cache |-> last_diagnostics, disk |-> disk, paths |-> runtime_filepaths]
        ELSE IF returns_cached(live_mode, is_saved, document.path, last_diagnostics)
        THEN [outcome |-> "cached", namespace |-> "",
              returned |-> last_diagnostics[document.path], invoked |-> <<>>,
              wrote_buffer |-> FALSE,
              cache |-> last_diagnostics, disk |-> disk, paths |-> paths]
        ELSE [outcome |-> "checked", namespace |-> "",
              returned |-> diagnostics, invoked |-> invoked, wrote_buffer |-> writes,
              cache |-> store_diagnostics(last_diagnostics, document.path, diagnostics),
              disk |-> IF dmypy THEN daemon_writes(disk1, created) ELSE disk1,
              paths |-> paths]

(***************************************************************************)
(* close, registered with atexit                                           *)
(***************************************************************************)

\* The loop over _runtime_filepaths.values() from position i: os.unlink
\* removes a file that exists and raises FileNotFoundError for one that
\* does not, which ends the loop.
RECURSIVE unlink_from(_, _, _)
unlink_from(paths, i, d) ==
    IF i > Len(paths) THEN [disk |-> d, raised |-> FALSE]
    ELSE LET runtime_fpath == paths[i][2]
         IN  IF runtime_fpath = "" THEN unlink_from(paths, i + 1, d)
             ELSE IF runtime_fpath \in DOMAIN d
             THEN unlink_from(paths, i + 1,
                              [p \in DOMAIN d \ {runtime_fpath} |-> d[p]])
             ELSE [disk |-> d, raised |-> TRUE]

close == unlink_from(runtime_filepaths, 1, disk)

(***************************************************************************)
(* Spec: the hooks called by the host, then process exit.                  *)
(***************************************************************************)
Init ==
    /\ InitModule
    /\ files = {<<WorkspaceRoot, "mypy.ini">>, <<0, "pyproject.toml">>}
    /\ sections = {<<0, "mypy">>}
    /\ parse_call = NoPureCall
    /\ override_call = NoPureCall
    /\ config_call = NoPureCall

\* The state after a pylsp_lint call with result r.
Linted(r, settings, oldSettings1, oldSettings2, document, is_saved, probe, run) ==
    /\ last_diagnostics' = r.cache
    /\ disk' = r.disk
    /\ runtime_filepaths' = r.paths
    /\ call' = [op |-> "pylsp_lint", path |-> document.path, is_saved |-> is_saved,
                settings |-> settings, oldSettings1 |-> oldSettings1,
                oldSettings2 |-> oldSettings2, outcome |-> r.outcome,
                namespace |-> r.namespace, returned |-> r.returned,
                invoked |-> r.invoked, wrote_buffer |-> r.wrote_buffer,
                probe |-> probe, run |-> run]
    /\ UNCHANGED <<mypy_config_file_map, files, sections, parse_call, override_call,
                   config_call>>

\* pylsp_lint ending in the DeprecationWarning.
LintDeprecated ==
    /\ call.op # "close"
    /\ \E settings \in LintSettings, oldSettings1 \in LegacySettings,
          oldSettings2 \in LegacySettings, document \in LintDocuments,
          is_saved \in BOOLEAN :
         LET r == lint(settings, oldSettings1, oldSettings2, WorkspaceRoot, document,
                       is_saved, NoProbe, NoAnswer, {})
         IN  /\ r.outcome = "DeprecationWarning"
             /\ Linted(r, settings, oldSettings1, oldSettings2, document, is_saved,
                       NoProbe, NoAnswer)

\* pylsp_lint returning the cached diagnostics.
LintCached ==
    /\ call.op # "close"
    /\ \E settings \in LintSettings, oldSettings1 \in LegacySettings,
          oldSettings2 \in LegacySettings, document \in LintDocuments,
          is_saved \in BOOLEAN :
         LET r == lint(settings, oldSettings1, oldSettings2, WorkspaceRoot, document,
                       is_saved, NoProbe, NoAnswer, {})
         IN  /\ r.outcome = "cached"
             /\ Linted(r, settings, oldSettings1, oldSettings2, document, is_saved,
                       NoProbe, NoAnswer)

\* pylsp_lint running mypy once.
LintMypy ==
    /\ call.op # "close"
    /\ \E settings \in LintSettings, oldSettings1 \in LegacySettings,
          oldSettings2 \in LegacySettings, document \in LintDocuments,
          is_saved \in BOOLEAN, run \in Runs :
         LET r == lint(settings, oldSettings1, oldSettings2, WorkspaceRoot, document,
                       is_saved, NoProbe, run, {})
         IN  /\ ~Get(settings, "dmypy", FALSE)
             /\ r.outcome = "checked"
             /\ Linted(r, settings, oldSettings1, oldSettings2, document, is_saved,
                       NoProbe, run)

\* pylsp_lint running the daemon.
LintDmypy ==
    /\ call.op # "close"
    /\ \E settings \in LintSettings, oldSettings1 \in LegacySettings,
          oldSettings2 \in LegacySettings, document \in LintDocuments,
          is_saved \in BOOLEAN, probe \in Probes, run \in Runs,
          created \in DaemonFiles :
         LET r == lint(settings, oldSettings1, oldSettings2, WorkspaceRoot, document,
                       is_saved, probe, run, created)
         IN  /\ Get(settings, "dmypy", FALSE)
             /\ r.outcome = "checked"
             /\ Linted(r, settings, oldSettings1, oldSettings2, document, is_saved,
                       probe, run)

\* pylsp_lint, by the way it ends.
pylsp_lint == LintDeprecated \/ LintCached \/ LintMypy \/ LintDmypy

\* pylsp_settings for the workspace.
HostSettings ==
    /\ call.op # "close"
    /\ pylsp_settings(WorkspaceRoot)
    /\ UNCHANGED <<last_diagnostics, runtime_filepaths, disk, files, sections,
                   parse_call, override_call, config_call>>

\* The process exits: the atexit handler runs, and nothing runs after it.
Exit ==
    /\ call.op # "close"
    /\ disk' = close.disk
    /\ call' = [op |-> "close", raised |-> close.raised]
    /\ UNCHANGED <<last_diagnostics, mypy_config_file_map, runtime_filepaths, files,
                   sections, parse_call, override_call, config_call>>

Next == pylsp_lint \/ HostSettings \/ Exit

Spec == Init /\ [][Next]_vars

(***************************************************************************)
(* Properties of pylsp_lint and close, checked under Spec.  call is the    *)
(* last call made; in a step, call' is the call the step makes and the     *)
(* unprimed variables are the state it was made in.                        *)
(***************************************************************************)
IsLint(c) == c.op = "pylsp_lint"
LegacySet(c) == ~IsEmptyDict(c.oldSettings1) \/ ~IsEmptyDict(c.oldSettings2)
DmypyEnabled(c) == Get(c.settings, "dmypy", FALSE)
LiveModeDisabled(c) == Get(c.settings, "live_mode", TRUE) = FALSE \/ DmypyEnabled(c)
HasShadowFile(args) == \E i \in 1..Len(args) : args[i] = Str("--shadow-file")
DocumentAt(path) == CHOOSE document \in LintDocuments : document.path = path
BufferContent(d) == IF LiveModeBuffer \in DOMAIN d THEN Str(d[LiveModeBuffer]) ELSE PyNone

\* C1 as stated: a call with is_saved false, live_mode disabled (set false,
\* or dmypy enabled) and a cache entry for document.path returns that cached
\* list, invokes neither mypy_api.run nor mypy_api.run_dmypy, and leaves the
\* cache unchanged.
C1_CachedReturned ==
    [][(/\ IsLint(call')
        /\ ~call'.is_saved
        /\ LiveModeDisabled(call')
        /\ call'.path \in DOMAIN last_diagnostics)
       => (/\ call'.outcome = "cached"
           /\ call'.returned = last_diagnostics[call'.path]
           /\ call'.invoked = <<>>
           /\ last_diagnostics' = last_diagnostics)]_vars

\* C1, amended: a call with neither legacy namespace set, is_saved false,
\* live_mode disabled and a cache entry for document.path returns that
\* cached list, invokes no checker and leaves the cache unchanged.
C1_CachedReturnedUnlessLegacy ==
    [][(/\ IsLint(call')
        /\ ~LegacySet(call')
        /\ ~call'.is_saved
        /\ LiveModeDisabled(call')
        /\ call'.path \in DOMAIN last_diagnostics)
       => (/\ call'.outcome = "cached"
           /\ call'.returned = last_diagnostics[call'.path]
           /\ call'.invoked = <<>>
           /\ last_diagnostics' = last_diagnostics)]_vars

\* An unsaved call with live_mode set false has returned the cached list of
\* its path, and another one, with dmypy enabled, an empty cached list.
C1_Witness ==
    /\ IsLint(call) /\ ~LegacySet(call) /\ ~call.is_saved
    /\ call.outcome = "cached"
    /\ call.returned = last_diagnostics[call.path]
    /\ \/ Get(call.settings, "live_mode", TRUE) = FALSE /\ call.returned # <<>>
       \/ DmypyEnabled(call) /\ call.returned = <<>>

\* C2 as stated: in a call with dmypy enabled the scratch buffer file is
\* not written and no argument list passed to the daemon holds
\* --shadow-file.
C2_DaemonNoShadowFile ==
    (IsLint(call) /\ DmypyEnabled(call))
      => (/\ ~call.wrote_buffer
          /\ \A i \in 1..Len(call.invoked) : ~HasShadowFile(call.invoked[i].args))

\* C2, amended: in a call with dmypy enabled, saved or not, the scratch
\* buffer file is not written, and an argument list passed to the daemon
\* holds --shadow-file only if the configured overrides hold it.
C2_DaemonShadowFileOnlyFromOverrides ==
    [][(IsLint(call') /\ DmypyEnabled(call'))
       => (/\ ~call'.wrote_buffer
           /\ BufferContent(disk') = BufferContent(disk)
           /\ \A i \in 1..Len(call'.invoked) :
                HasShadowFile(call'.invoked[i].args)
                  => HasShadowFile(Get(call'.settings, "overrides", <<PyTrue>>)))]_vars

\* A daemon run for an unsaved document, with live_mode left at its default
\* (enabled) and with the default overrides.
C2_Witness ==
    /\ IsLint(call) /\ DmypyEnabled(call) /\ ~call.is_saved
    /\ Get(call.settings, "live_mode", TRUE) = TRUE
    /\ "overrides" \notin DOMAIN call.settings
    /\ call.outcome = "checked"
    /\ Len(call.invoked) >= 2

\* C7: a call in which the namespace mypy-ls or mypy_ls is non-empty ends
\* in the DeprecationWarning, whatever the pylsp_mypy namespace holds, with
\* no checker or daemon invocation, no write to the scratch buffer file (nor
\* to any file) and the cache unchanged.
C7_LegacyNamespaceFailsFirst ==
    [][(IsLint(call') /\ LegacySet(call'))
       => (/\ call'.outcome = "DeprecationWarning"
           /\ call'.namespace \in {"mypy-ls", "mypy_ls"}
           /\ call'.invoked = <<>>
           /\ ~call'.wrote_buffer
           /\ disk' = disk
           /\ last_diagnostics' = last_diagnostics
           /\ runtime_filepaths' = runtime_filepaths)]_vars

\* A call with both the pylsp_mypy namespace and a legacy namespace set has
\* ended in the DeprecationWarning, the cache holding an entry.
C7_Witness ==
    /\ IsLint(call) /\ LegacySet(call)
    /\ ~IsEmptyDict(call.settings)
    /\ call.outcome = "DeprecationWarning"
    /\ DOMAIN last_diagnostics # {}

\* C8: a call that ran the checker returns the diagnostics of its own run
\* and leaves them, and nothing else, as the cache entry of its path, the
\* entries of the other paths as they were; every other step leaves the
\* cache as it was.  So the entry of a path is always the list returned by
\* the last call on that path that ran the checker.
C8_CacheHoldsLastResult ==
    [][IF IsLint(call') /\ call'.outcome = "checked"
       THEN /\ call'.returned
                 = checker_diagnostics(call'.run, DocumentAt(call'.path))
            /\ DOMAIN last_diagnostics' = DOMAIN last_diagnostics \cup {call'.path}
            /\ last_diagnostics'[call'.path] = call'.returned
            /\ \A p \in DOMAIN last_diagnostics \ {call'.path} :
                 last_diagnostics'[p] = last_diagnostics[p]
       ELSE last_diagnostics' = last_diagnostics]_vars

\* A checking call has stored its non-empty result while the other path
\* has an entry of its own.
C8_Witness ==
    /\ IsLint(call) /\ call.outcome = "checked"
    /\ call.returned # <<>>
    /\ last_diagnostics[call.path] = call.returned
    /\ \E p \in DOMAIN last_diagnostics :
         p # call.path /\ last_diagnostics[p] # call.returned

\* The whole-first-line diagnostic of a returned list, if it has one.
HasGeneric(returned) ==
    returned # <<>> /\ returned[1].range.end.character = 1000

\* C9: a daemon-mode call that reaches the checker calls run_dmypy with
\* status first, then with kill if and only if the probe returned non-zero,
\* then once with run, last; and the first-line diagnostic is there only if
\* the run printed a message, with the run's message and a severity from the
\* run's exit status, whatever the probe answered.
C9_DaemonProbeKillRun ==
    (IsLint(call) /\ DmypyEnabled(call) /\ call.outcome = "checked")
      => LET n == Len(call.invoked)
         IN  /\ n = IF call.probe.status # 0 THEN 3 ELSE 2
             /\ \A i \in 1..n : call.invoked[i].api = "run_dmypy"
             /\ call.invoked[1].args = <<Str("status")>>
             /\ call.probe.status # 0 => call.invoked[2].args = <<Str("kill")>>
             /\ Len(call.invoked[n].args) >= 3 /\ call.invoked[n].args[3] = Str("run")
             /\ HasGeneric(call.returned) <=> call.run.messages # ""
             /\ HasGeneric(call.returned)
                  => /\ call.returned[1].message = call.run.messages
                     /\ call.returned[1].severity
                          = IF call.run.status # 0 THEN 1 ELSE 2
             /\ \A i \in 2..Len(call.returned) : ~HasGeneric(<<call.returned[i]>>)

\* A daemon run after a failed probe, the run printing no message.
C9_Witness ==
    /\ IsLint(call) /\ DmypyEnabled(call) /\ call.outcome = "checked"
    /\ call.probe.status # 0
    /\ call.run.messages = ""
    /\ Len(call.invoked) = 3
    /\ call.returned # <<>>

\* C10 as stated: after close() no registered runtime file remains on disk,
\* and close() ends without an exception, whichever of the files exist.
C10_NoRegisteredFileRemains ==
    call.op = "close"
      => /\ ~call.raised
         /\ \A i \in 1..Len(runtime_filepaths) :
              runtime_filepaths[i][2] \notin DOMAIN disk

====
